---- MODULE Spec2Model ----
(***************************************************************************)
(* A model of vault/core.go: the Core's seal state machine (Initialize,    *)
(* Unseal, Seal, postUnseal, preSeal), the request pipeline                *)
(* (HandleRequest, checkToken) and the HA standby loop (runStandby).       *)
(*                                                                         *)
(* Keys are byte strings, modelled as sequences of field elements.  The    *)
(* barrier's master key is KeyLen bytes long; a Shamir share is the        *)
(* polynomial's value followed by one byte, the x coordinate.              *)
(***************************************************************************)
EXTENDS Integers, Sequences, FiniteSets, TLC

(* ------------------------------ bounds --------------------------------- *)

\* Largest number of secret shares an Initialize call is given.
MaxShares == 3
\* Number of client threads calling into the Cores.
NumThreads == 2
\* Number of standby-loop goroutines that are ever started.
MaxLoops == 2
\* Number of uuids generateUUID hands out.
MaxUUID == 2
\* Number of tokens the token store ever creates.
MaxTokens == 2

(* ----------------------- constants of the program ---------------------- *)

\* SealConfig.Validate: shares and threshold must be less than 256.
MaxSealParts == 255
\* shamir.ShareOverhead: bytes a share is longer than the secret.
ShareOverhead == 1
\* barrier.KeyLength(): the accepted length of a raw master key (min = max).
KeyLen == 1
\* The field the Shamir polynomial lives in (a prime, so that every
\* non-zero element has an inverse).
FieldP == 5

Cores == {1, 2}
Threads == 1..NumThreads
Loops == 1..MaxLoops
Field == 0..(FieldP - 1)

(* ------------------------------ SealConfig ----------------------------- *)

NoConfig == [n |-> 0, t |-> 0]

\* SealConfig.Validate: "" when the configuration is valid.
Validate(s) ==
    IF s.n < 1 THEN "secret shares must be at least one"
    ELSE IF s.t < 1 THEN "secret threshold must be at least one"
    ELSE IF s.n > MaxSealParts THEN "secret shares must be less than 256"
    ELSE IF s.t > MaxSealParts THEN "secret threshold must be less than 256"
    ELSE IF s.t > s.n THEN "secret threshold cannot be larger than secret shares"
    ELSE ""

(* -------------------------------- Shamir ------------------------------- *)

Mod(a) == a % FieldP

\* The inverse of a non-zero field element.
Inv(a) == CHOOSE b \in 1..(FieldP - 1) : Mod(a * b) = 1

RECURSIVE EvalPoly(_, _)
\* Horner evaluation of the polynomial with coefficients poly (constant
\* term first) at x.
EvalPoly(poly, x) ==
    IF poly = <<>> THEN 0
    ELSE Mod(Head(poly) + x * EvalPoly(Tail(poly), x))

\* shamir.Split for a one byte secret: n shares <<f(x), x>>, x = 1..n, of the
\* polynomial of degree t-1 whose constant term is the secret and whose
\* other coefficients are coef.
ShamirSplit(secret, n, coef) ==
    [i \in 1..n |-> <<EvalPoly(<<secret[1]>> \o coef, i), i>>]

RECURSIVE LagrangeBasis(_, _, _)
\* prod over j # i of (0 - x_j) / (x_i - x_j)
LagrangeBasis(parts, i, j) ==
    IF j > Len(parts) THEN 1
    ELSE IF j = i THEN LagrangeBasis(parts, i, j + 1)
    ELSE Mod(Mod(FieldP - parts[j][2])
             * Inv(Mod(parts[i][2] - parts[j][2] + FieldP))
             * LagrangeBasis(parts, i, j + 1))

RECURSIVE Interpolate(_, _)
Interpolate(parts, i) ==
    IF i > Len(parts) THEN 0
    ELSE Mod(parts[i][1] * LagrangeBasis(parts, i, 1) + Interpolate(parts, i + 1))

\* shamir.Combine: <<>> stands for its error (fewer than two parts, parts of
\* different or too small length, two parts with one x coordinate).
ShamirCombine(parts) ==
    IF Len(parts) < 2 THEN <<>>
    ELSE IF \E i \in 1..Len(parts) : Len(parts[i]) # KeyLen + ShareOverhead THEN <<>>
    ELSE IF \E i, j \in 1..Len(parts) :
                i # j /\ Mod(parts[i][2]) = Mod(parts[j][2]) THEN <<>>
    ELSE <<Interpolate(parts, 1)>>

(* ------------------------------- state --------------------------------- *)

VARIABLES
    ha,             \* the physical backend offers the HA lock (Core.ha # nil)
    sealConfig,     \* physical store, core/seal-config (NoConfig: absent)
    keyring,        \* physical store, the barrier keyring: the master key
                    \* that opens it (<<>>: the barrier is not initialized)
    tokens,         \* the token store's entries, persisted inside the barrier
    leaderEntries,  \* barrier entries core/leader/<uuid>: pairs <<uuid, core>>
    haLock,         \* the advisory lock at core/lock: the loop holding it, or 0
    nextUUID,       \* the next value generateUUID returns
    sealed,         \* Core.sealed, per Core
    standby,        \* Core.standby
    unlockParts,    \* Core.unlockParts
    barrierSealed,  \* the sealed state of the Core's barrier
    mgr,            \* the manager handles of the Core that are set up
    curLoop,        \* the loop whose channels are Core.standbyDoneCh/StopCh
    loops,          \* the standby-loop goroutines
    th,             \* the client threads
    shares,         \* InitResult.SecretShares, as returned to the caller
    nInitResults,   \* number of InitResults returned so far
    submitted       \* history: the distinct keys given to Unseal, per Core

vars == <<ha, sealConfig, keyring, tokens, leaderEntries, haLock, nextUUID,
          sealed, standby, unlockParts, barrierSealed, mgr, curLoop, loops,
          th, shares, nInitResults, submitted>>

physVars == <<sealConfig, keyring, tokens>>
haVars == <<leaderEntries, haLock, nextUUID, curLoop, loops>>
coreVars == <<sealed, standby, unlockParts, barrierSealed, mgr>>
outVars == <<shares, nInitResults>>

(* --------------------------- postUnseal, preSeal ------------------------ *)

\* The handles each fallible step of postUnseal sets up, in its order:
\* loadMounts, setupMounts, startRollback, setupPolicyStore, loadCredentials,
\* setupCredentials, setupExpiration, loadAudits, setupAudits.
PostSteps ==
    << {"mounts"}, {"router"}, {"rollback"}, {"policy"}, {"auth"},
       {"tokenStore"}, {"expiration"}, {"audit"}, {"auditBroker"} >>

\* The steps of postUnseal whose error is returned as nil
\* (setupPolicyStore, loadCredentials, setupCredentials).
PostUnsealSwallowed == {4, 5, 6}

RECURSIVE UnionUpTo(_, _)
UnionUpTo(steps, k) ==
    IF k = 0 THEN {} ELSE steps[k] \cup UnionUpTo(steps, k - 1)

\* postUnseal on handles m when step fail fails (0: no step fails): the
\* handles afterwards, and whether an error is returned.
PostUnseal(m, fail) ==
    IF fail = 0
    THEN [mgr |-> m \cup UnionUpTo(PostSteps, Len(PostSteps)) \cup {"metricsCh"},
          err |-> FALSE]
    ELSE [mgr |-> m \cup UnionUpTo(PostSteps, fail - 1),
          err |-> fail \notin PostUnsealSwallowed]

\* The handles each fallible step of preSeal tears down, in its order:
\* teardownAudits, stopExpiration, teardownCredentials, teardownPolicyStore,
\* stopRollback, unloadMounts.
PreSteps ==
    << {"audit", "auditBroker"}, {"expiration"}, {"auth", "tokenStore"},
       {"policy"}, {"rollback"}, {"mounts", "router"} >>

\* preSeal on handles m when step fail fails (0: no step fails).
PreSeal(m, fail) ==
    IF fail = 0
    THEN [mgr |-> (m \ {"metricsCh"}) \ UnionUpTo(PreSteps, Len(PreSteps)),
          err |-> FALSE]
    ELSE [mgr |-> (m \ {"metricsCh"}) \ UnionUpTo(PreSteps, fail - 1),
          err |-> TRUE]

PostFails == 0..Len(PostSteps)
PreFails == 0..Len(PreSteps)

(* ------------------------ router, policies, tokens ---------------------- *)

\* router.LoginPath: the unauthenticated paths of the credential backends.
LoginPath(path) == path = "auth/userpass/login"

\* router.RootPath: the paths their backend declares root protected.
RootPath(path) == path = "sys/seal"

\* acl.RootPrivilege: the ACL derives from the root policy.
RootPrivilege(policies, path) == "root" \in policies

\* acl.AllowOperation: root allows everything, sysadmin every operation under
\* sys/ (without sudo), readonly a read under secret/.
AllowOperation(policies, op, path) ==
    \/ "root" \in policies
    \/ "sysadmin" \in policies /\ path = "sys/seal"
    \/ "readonly" \in policies /\ op = "read" /\ path = "secret/foo"

\* tokenStore.Lookup: the entries with this id (none: the token is unknown).
Lookup(token) == {te \in tokens : te.id = token}

\* checkToken without the test of the root protected paths.
checkTokenNoRootCheck(m, op, path, token, cfail) ==
    IF token = 0 THEN "missing client token"
    ELSE IF "tokenStore" \notin m THEN "panic"
    ELSE IF cfail = "lookup" THEN "ErrInternalError"
    ELSE IF Lookup(token) = {} THEN "ErrPermissionDenied"
    ELSE IF cfail = "use" THEN "ErrInternalError"
    ELSE IF "policy" \notin m THEN "panic"
    ELSE IF cfail = "acl" THEN "ErrInternalError"
    ELSE LET te == CHOOSE e \in Lookup(token) : TRUE IN
         IF ~AllowOperation(te.policies, op, path)
         THEN "ErrPermissionDenied"
         ELSE ""

\* Core.checkToken(op, path, token) on Core handles m, when step cfail of it
\* fails ("none", "lookup", "use", "acl"): "" when the check passes, else the
\* error; "panic" when a handle it calls through is nil.
checkToken(m, op, path, token, cfail) ==
    IF token = 0 THEN "missing client token"
    ELSE IF "tokenStore" \notin m THEN "panic"
    ELSE IF cfail = "lookup" THEN "ErrInternalError"
    ELSE IF Lookup(token) = {} THEN "ErrPermissionDenied"
    ELSE IF cfail = "use" THEN "ErrInternalError"
    ELSE IF "policy" \notin m THEN "panic"
    ELSE IF cfail = "acl" THEN "ErrInternalError"
    ELSE LET te == CHOOSE e \in Lookup(token) : TRUE IN
         IF RootPath(path) /\ ~RootPrivilege(te.policies, path)
         THEN "ErrPermissionDenied"
         ELSE IF ~AllowOperation(te.policies, op, path)
         THEN "ErrPermissionDenied"
         ELSE ""

CheckFails == {"none", "lookup", "use", "acl"}

(* ------------------------------- threads -------------------------------- *)

\* A client thread that is in no call (op, core and the arguments are those
\* of the call it is in).  ret and err hold what its last call returned; checked, audited, routed, respAudited and registered what its
\* last request went through (checkToken, LogRequest, Route, LogResponse,
\* expiration.Register); secretLease and authLease the lease durations it
\* registered (-1: none); site the place Unseal returned from.
IdleThread ==
    [pc |-> "idle", op |-> "none", core |-> 1, cfg |-> NoConfig, key |-> <<>>,
     token |-> 0, rop |-> "none", path |-> "none", loop |-> 0,
     ret |-> "none", err |-> "",
     checked |-> FALSE, audited |-> FALSE, routed |-> FALSE,
     respAudited |-> FALSE, secretLease |-> -1, authLease |-> -1,
     registered |-> FALSE, addr |-> 0, site |-> ""]

\* The thread's call returns ret, err.
Return(t, ret, err) ==
    [th EXCEPT ![t] = [IdleThread EXCEPT !.ret = ret, !.err = err]]

\* The state read-lock is held by the requests in flight.
Readers(c) == {t \in Threads : th[t].core = c /\ th[t].pc = "hr_inflight"}

\* stateLock.Lock() returns once no reader holds the lock.  Every section
\* under the write lock is one step, so no state shows a writer inside.
WriteLockFree(c) == Readers(c) = {}

\* A caller is blocked in stateLock.Lock(): new readers wait behind it.
WriterWaiting(c) ==
    \/ \E t \in Threads :
          /\ th[t].core = c
          /\ th[t].pc \in {"init_lock", "unseal_lock", "seal_lock", "seal_relock"}
    \/ \E l \in Loops :
          /\ loops[l].core = c
          /\ loops[l].pc \in {"promote", "demote"}

\* A standby loop that was not started.  preSeals counts the runs of preSeal
\* the loop made since it was last at its head.
NoLoop ==
    [core |-> 0, pc |-> "unused", uuid |-> 0, stop |-> FALSE, done |-> FALSE,
     lost |-> FALSE, preSeals |-> 0]

(* -------------------------------- NewCore ------------------------------- *)

\* The state after NewCore: nothing persisted, every Core sealed and standby.
InitCommon ==
    /\ sealConfig = NoConfig
    /\ keyring = <<>>
    /\ tokens = {}
    /\ leaderEntries = {}
    /\ haLock = 0
    /\ nextUUID = 1
    /\ sealed = [c \in Cores |-> TRUE]
    /\ standby = [c \in Cores |-> TRUE]
    /\ unlockParts = [c \in Cores |-> <<>>]
    /\ barrierSealed = [c \in Cores |-> TRUE]
    /\ mgr = [c \in Cores |-> {}]
    /\ curLoop = [c \in Cores |-> 0]
    /\ loops = [l \in Loops |-> NoLoop]
    /\ th = [t \in Threads |-> IdleThread]
    /\ shares = <<>>
    /\ nInitResults = 0
    /\ submitted = [c \in Cores |-> {}]

\* One Core over a physical backend without the HA capability.
Init == ha = FALSE /\ InitCommon

\* Two Cores over one physical backend with the HA capability.
InitHA == ha = TRUE /\ InitCommon

(* ------------------------------ Initialize ------------------------------ *)

\* Initialize without the check that the Core is initialized.
InitializedUnchecked == FALSE

\* Core.Initialized: the barrier is initialized and the seal configuration
\* is present.
Initialized == keyring # <<>> /\ sealConfig # NoConfig

\* Core.Initialize up to the state lock: the configuration is validated.
InitializeCall(t, c, cfg) ==
    /\ th[t].pc = "idle"
    /\ th' = [th EXCEPT ![t] =
                IF Validate(cfg) # ""
                THEN [IdleThread EXCEPT !.ret = "nil",
                                         !.err = "invalid seal configuration"]
                ELSE [IdleThread EXCEPT !.op = "Initialize", !.core = c,
                         !.cfg = cfg, !.pc = "init_lock"]]
    /\ UNCHANGED <<ha, physVars, haVars, coreVars, outVars, submitted>>

\* What can fail in Initialize: <<call, step>>, the step for postUnseal and
\* preSeal.
InitFails ==
    {<<f, 0>> : f \in {"none", "put", "generateKey", "barrierInit", "split",
                       "barrierUnseal", "rootToken"}}
    \cup {<<"postUnseal", k>> : k \in 1..Len(PostSteps)}
    \cup {<<"preSeal", k>> : k \in 1..Len(PreSteps)}

\* The shares Initialize hands out: the master key itself for one share,
\* else the Shamir split.
InitShares(cfg, masterKey, coef) ==
    IF cfg.n = 1 THEN <<masterKey>> ELSE ShamirSplit(masterKey, cfg.n, coef)

\* Initialize without the deferred barrier.Seal().
DeferredSealMissing(c) == [barrierSealed EXCEPT ![c] = FALSE]

\* The deferred barrier.Seal() of Initialize.
DeferredSeal(c) == [barrierSealed EXCEPT ![c] = TRUE]

\* Core.Initialize under the state lock.  failure names the call that fails
\* (and the step of postUnseal or preSeal); masterKey is what GenerateKey
\* returns, coef the coefficients Split draws.
InitializeBody(t, failure, masterKey, coef) ==
    LET c == th[t].core
        cfg == th[t].cfg
        fail == failure[1]
        pu == PostUnseal(mgr[c], IF fail = "postUnseal" THEN failure[2] ELSE 0)
        ps == PreSeal(pu.mgr, IF fail = "preSeal" THEN failure[2] ELSE 0)
        rootEntry == [id |-> Cardinality(tokens) + 1, policies |-> {"root"}]
        \* how far the call gets
        stage ==
            IF Initialized THEN "ErrAlreadyInit"
            ELSE IF fail = "put" THEN "put"
            ELSE IF fail = "generateKey" THEN "generateKey"
            ELSE IF fail = "barrierInit" THEN "barrierInit"
            ELSE IF fail = "split" /\ cfg.n # 1 THEN "split"
            ELSE IF fail = "barrierUnseal" THEN "barrierUnseal"
            ELSE IF pu.err THEN "postUnseal"
            ELSE IF "tokenStore" \notin pu.mgr THEN "panic"
            ELSE IF fail = "rootToken" THEN "rootToken"
            ELSE IF ps.err THEN "preSeal"
            ELSE "ok"
        putDone == stage \notin {"ErrAlreadyInit", "put"}
        ringDone == putDone /\ stage \notin {"generateKey", "barrierInit"}
        unsealDone == ringDone /\ stage \notin {"split", "barrierUnseal"}
        tokenDone == stage \in {"preSeal", "ok"}
    IN
    /\ th[t].pc = "init_lock"
    /\ WriteLockFree(c)
    /\ Len(coef) = cfg.t - 1
    /\ sealConfig' = IF putDone THEN cfg ELSE sealConfig
    /\ keyring' = IF ringDone THEN masterKey ELSE keyring
    \* the deferred barrier.Seal
    /\ barrierSealed' = IF unsealDone THEN DeferredSeal(c) ELSE barrierSealed
    /\ mgr' = IF ~unsealDone THEN mgr
              ELSE IF tokenDone THEN [mgr EXCEPT ![c] = ps.mgr]
              ELSE [mgr EXCEPT ![c] = pu.mgr]
    /\ tokens' = IF tokenDone THEN tokens \cup {rootEntry} ELSE tokens
    /\ shares' = IF stage = "ok" THEN InitShares(cfg, masterKey, coef) ELSE shares
    /\ nInitResults' = IF stage = "ok" THEN nInitResults + 1 ELSE nInitResults
    /\ th' = IF stage = "ok" THEN Return(t, "InitResult", "")
             ELSE Return(t, "nil", stage)
    /\ UNCHANGED <<ha, haVars, sealed, standby, unlockParts, submitted>>

(* -------------------------------- Unseal -------------------------------- *)

\* barrier.Unseal(key) succeeds for the master key of an initialized
\* barrier, whether the barrier is sealed or not; it fails for any other key.
BarrierUnsealOK(key) == keyring # <<>> /\ key = keyring

\* Core.Unseal up to the state lock: the key length is checked and the seal
\* configuration read.
UnsealCall(t, c, key) ==
    /\ th[t].pc = "idle"
    /\ th' = [th EXCEPT ![t] =
                IF Len(key) < KeyLen
                THEN [IdleThread EXCEPT !.ret = "false",
                                         !.err = "ErrInvalidKey: shorter"]
                ELSE IF Len(key) > KeyLen + ShareOverhead
                THEN [IdleThread EXCEPT !.ret = "false",
                                         !.err = "ErrInvalidKey: longer"]
                ELSE IF sealConfig = NoConfig
                THEN [IdleThread EXCEPT !.ret = "false", !.err = "ErrNotInit"]
                ELSE [IdleThread EXCEPT !.op = "Unseal", !.core = c, !.key = key,
                         !.cfg = sealConfig, !.pc = "unseal_lock"]]
    /\ UNCHANGED <<ha, physVars, haVars, coreVars, outVars, submitted>>

\* Unseal compares the key with its first part only.
HavePieceFirstOnly(parts, key) == Len(parts) > 0 /\ parts[1] = key

\* Unseal already has this piece: a part is byte-equal to the key.
HavePiece(parts, key) == \E i \in 1..Len(parts) : parts[i] = key

\* The parts Unseal holds once the key is stored.
StoreKey(parts, key) == Append(parts, key)

\* Unseal unlocks one part early.
NotEnoughKeysOffByOne(parts, cfg) == Len(parts) < cfg.t - 1

\* Unseal has too few parts to unlock.
NotEnoughKeys(parts, cfg) == Len(parts) < cfg.t

\* Unseal drops the last key only and keeps the parts it held.
PartsKept(parts) == SubSeq(parts, 1, Len(parts) - 1)

\* The parts Unseal holds once it has tried to recover the master key:
\* c.unlockParts = nil, whether the recovery worked or not.
PartsAfterRecover(parts) == <<>>

\* The master key Unseal recovers from its parts (<<>>: Combine failed).
RecoverMasterKey(parts, cfg) ==
    IF cfg.t = 1 THEN parts[1] ELSE ShamirCombine(parts)

\* The history of the distinct keys given to Unseal; it is not followed
\* beyond MaxShares + 1 keys.
Submit(c, key) ==
    IF Cardinality(submitted[c]) > MaxShares THEN submitted
    ELSE [submitted EXCEPT ![c] = @ \cup {key}]

\* Core.Unseal under the state lock.  pfail is the step of postUnseal that
\* fails, l the goroutine that `go c.runStandby` starts.
UnsealBody(t, pfail, l) ==
    LET c == th[t].core
        cfg == th[t].cfg
        key == th[t].key
        parts == StoreKey(unlockParts[c], key)
        masterKey == RecoverMasterKey(parts, cfg)
        pu == PostUnseal(mgr[c], pfail)
    IN
    /\ th[t].pc = "unseal_lock"
    /\ WriteLockFree(c)
    /\ UNCHANGED <<ha, physVars, outVars, leaderEntries, haLock, nextUUID>>
    /\ IF ~sealed[c]
       THEN \* already unsealed
            /\ th' = Return(t, "true", "")
            /\ UNCHANGED <<coreVars, curLoop, loops, submitted>>
       ELSE /\ submitted' = Submit(c, key)
            /\ IF HavePiece(unlockParts[c], key)
               THEN \* we already have this piece
                    /\ th' = [Return(t, "false", "") EXCEPT ![t].site = "have piece"]
                    /\ UNCHANGED <<coreVars, curLoop, loops>>
               ELSE IF NotEnoughKeys(parts, cfg)
               THEN /\ unlockParts' = [unlockParts EXCEPT ![c] = parts]
                    /\ th' = [Return(t, "false", "") EXCEPT ![t].site = "not enough"]
                    /\ UNCHANGED <<sealed, standby, barrierSealed, mgr, curLoop, loops>>
               ELSE /\ unlockParts' = [unlockParts EXCEPT ![c] = PartsAfterRecover(parts)]
                    /\ IF masterKey = <<>>
                       THEN /\ th' = Return(t, "false", "failed to compute master key")
                            /\ UNCHANGED <<sealed, standby, barrierSealed, mgr,
                                           curLoop, loops>>
                       ELSE IF ~BarrierUnsealOK(masterKey)
                       THEN /\ th' = Return(t, "false", "barrier: invalid key")
                            /\ UNCHANGED <<sealed, standby, barrierSealed, mgr,
                                           curLoop, loops>>
                       ELSE IF ~ha
                       THEN \* post-unseal setup, HA is not enabled
                            /\ standby' = [standby EXCEPT ![c] = FALSE]
                            /\ mgr' = [mgr EXCEPT ![c] = pu.mgr]
                            /\ UNCHANGED <<curLoop, loops>>
                            /\ IF pu.err
                               THEN /\ barrierSealed' = [barrierSealed EXCEPT ![c] = TRUE]
                                    /\ th' = Return(t, "false", "postUnseal")
                                    /\ UNCHANGED sealed
                               ELSE /\ barrierSealed' = [barrierSealed EXCEPT ![c] = FALSE]
                                    /\ sealed' = [sealed EXCEPT ![c] = FALSE]
                                    /\ th' = Return(t, "true", "")
                       ELSE \* standby mode: start the standby loop
                            /\ loops[l].pc = "unused"
                            /\ \A k \in Loops : k < l => loops[k].pc # "unused"
                            /\ barrierSealed' = [barrierSealed EXCEPT ![c] = FALSE]
                            /\ curLoop' = [curLoop EXCEPT ![c] = l]
                            /\ loops' = [loops EXCEPT ![l] =
                                            [NoLoop EXCEPT !.core = c, !.pc = "top"]]
                            /\ sealed' = [sealed EXCEPT ![c] = FALSE]
                            /\ th' = Return(t, "true", "")
                            /\ UNCHANGED <<standby, mgr>>

(* --------------------------------- Seal --------------------------------- *)

\* Core.Seal reaches stateLock.Lock().
SealCall(t, c, token) ==
    /\ th[t].pc = "idle"
    /\ th' = [th EXCEPT ![t] =
                [IdleThread EXCEPT !.op = "Seal", !.core = c, !.token = token,
                    !.pc = "seal_lock"]]
    /\ UNCHANGED <<ha, physVars, haVars, coreVars, outVars, submitted>>

\* Seal without the token check.
SealCheckSkipped(m, token, cfail) == ""

\* The token check of Seal: a write on sys/seal.
SealCheck(m, token, cfail) == checkToken(m, "write", "sys/seal", token, cfail)

\* Core.Seal under the state lock, up to its return or, with HA, up to the
\* release of the lock before the wait for the standby loop.  cfail is the
\* step of checkToken that fails, sfail the step of preSeal that fails.
SealBody(t, cfail, sfail) ==
    LET c == th[t].core
        ck == SealCheck(mgr[c], th[t].token, cfail)
        ps == PreSeal(mgr[c], sfail)
        l == curLoop[c]
    IN
    /\ th[t].pc = "seal_lock"
    /\ WriteLockFree(c)
    /\ UNCHANGED <<ha, physVars, outVars, leaderEntries, haLock, nextUUID, curLoop,
                   standby, unlockParts>>
    /\ IF sealed[c]
       THEN /\ th' = Return(t, "nil", "")
            /\ UNCHANGED <<sealed, barrierSealed, mgr, loops, submitted>>
       ELSE IF ck # ""
       THEN /\ th' = [Return(t, "nil", ck) EXCEPT ![t].checked = TRUE]
            /\ UNCHANGED <<sealed, barrierSealed, mgr, loops, submitted>>
       ELSE /\ sealed' = [sealed EXCEPT ![c] = TRUE]
            /\ submitted' = [submitted EXCEPT ![c] = {}]
            /\ IF ~ha
               THEN /\ mgr' = [mgr EXCEPT ![c] = ps.mgr]
                    /\ UNCHANGED loops
                    /\ IF ps.err
                       THEN /\ th' = [Return(t, "nil", "internal error")
                                        EXCEPT ![t].checked = TRUE]
                            /\ UNCHANGED barrierSealed
                       ELSE /\ barrierSealed' = [barrierSealed EXCEPT ![c] = TRUE]
                            /\ th' = [Return(t, "nil", "") EXCEPT ![t].checked = TRUE]
               ELSE /\ UNCHANGED <<mgr, barrierSealed>>
                    /\ IF l = 0 \/ loops[l].stop
                       THEN \* close of a nil or closed channel
                            /\ th' = [Return(t, "nil", "panic") EXCEPT ![t].checked = TRUE]
                            /\ UNCHANGED loops
                       ELSE /\ loops' = [loops EXCEPT ![l].stop = TRUE]
                            /\ th' = [th EXCEPT ![t].pc = "seal_wait",
                                                ![t].checked = TRUE]

\* Seal evaluates c.standbyDoneCh, the state lock released.
SealReadDoneCh(t) ==
    /\ th[t].pc = "seal_wait"
    /\ th' = [th EXCEPT ![t].pc = "seal_recv", ![t].loop = curLoop[th[t].core]]
    /\ UNCHANGED <<ha, physVars, haVars, coreVars, outVars, submitted>>

\* Seal receives from the done channel, which the standby loop has closed.
SealRecvDone(t) ==
    /\ th[t].pc = "seal_recv"
    /\ th[t].loop # 0
    /\ loops[th[t].loop].done
    /\ th' = [th EXCEPT ![t].pc = "seal_relock"]
    /\ UNCHANGED <<ha, physVars, haVars, coreVars, outVars, submitted>>

\* Seal takes the state lock again and seals the barrier.
SealRelock(t) ==
    LET c == th[t].core IN
    /\ th[t].pc = "seal_relock"
    /\ WriteLockFree(c)
    /\ barrierSealed' = [barrierSealed EXCEPT ![c] = TRUE]
    /\ th' = Return(t, "nil", "")
    /\ UNCHANGED <<ha, physVars, haVars, outVars, submitted,
                   sealed, standby, unlockParts, mgr>>

(* ---------------------------- HandleRequest ----------------------------- *)

\* defaultLeaseDuration and maxLeaseDuration, in model time units.
DefaultLease == 2
MaxLease == 3

\* The lease without the limit of maxLeaseDuration.
ClampLeaseNoMax(lease, exempt) ==
    IF lease = 0 /\ ~exempt THEN DefaultLease ELSE lease

\* The lease duration the pipeline registers for a backend's duration.
ClampLease(lease, exempt) ==
    LET d == IF lease = 0 /\ ~exempt THEN DefaultLease ELSE lease
    IN IF d > MaxLease THEN MaxLease ELSE d

\* What the collaborators of one request do: fail the call that fails
\* ("none", a step of checkToken, "logReq", "create", "register", "logResp"),
\* kind the response Route returns ("nil", "plain", "secret", "auth"), rerr
\* whether Route returns an error with it, lease the duration the backend
\* gave, policies the policies of its Auth.
Envs(fails, kinds, rerrs, leases, policies) ==
    [fail : fails, kind : kinds, rerr : rerrs, lease : leases, policies : policies]

RequestFails == CheckFails \cup {"logReq", "create", "register", "logResp"}

\* What a request went through and returns.
Outcome(ret, err, checked, audited, routed, respAudited) ==
    [ret |-> ret, err |-> err, checked |-> checked, audited |-> audited,
     routed |-> routed, respAudited |-> respAudited, secretLease |-> -1,
     authLease |-> -1, registered |-> FALSE, create |-> FALSE]

\* The request goes on when LogRequest fails.
LogRequestFailsIgnored(env) == FALSE

\* auditBroker.LogRequest returns an error.
LogRequestFails(env) == env.fail = "logReq"

\* Core.handleRequest on handles m.
handleRequest(m, rop, path, token, env) ==
    LET ck == checkToken(m, rop, path, token,
                         IF env.fail \in CheckFails THEN env.fail ELSE "none")
        isSecret == env.kind = "secret"
        isAuth == env.kind = "auth"
        final == IF env.rerr THEN "backend error" ELSE ""
        ret == IF env.kind = "nil" THEN "nil" ELSE "resp"
        sl == IF isSecret THEN ClampLease(env.lease, FALSE) ELSE -1
        al == IF isAuth THEN ClampLease(env.lease, "root" \in env.policies) ELSE -1
    IN
    IF ck = "panic" THEN Outcome("nil", "panic", TRUE, FALSE, FALSE, FALSE)
    ELSE IF ck \in {"ErrInternalError", "ErrPermissionDenied"}
    THEN Outcome("resp", ck, TRUE, FALSE, FALSE, FALSE)
    ELSE IF ck # "" THEN Outcome("resp", "ErrInvalidRequest", TRUE, FALSE, FALSE, FALSE)
    ELSE IF "auditBroker" \notin m
    THEN Outcome("nil", "panic", TRUE, FALSE, FALSE, FALSE)
    ELSE IF LogRequestFails(env)
    THEN Outcome("nil", "ErrInternalError", TRUE, FALSE, FALSE, FALSE)
    ELSE IF isSecret /\ "expiration" \notin m
    THEN Outcome("nil", "panic", TRUE, TRUE, TRUE, FALSE)
    ELSE IF isSecret /\ env.fail = "register"
    THEN [Outcome("nil", "ErrInternalError", TRUE, TRUE, TRUE, FALSE)
             EXCEPT !.secretLease = sl]
    ELSE IF isAuth /\ path # "auth/token/create"
    THEN Outcome("nil", "ErrInternalError", TRUE, TRUE, TRUE, FALSE)
    ELSE IF isAuth /\ "expiration" \notin m
    THEN Outcome("nil", "panic", TRUE, TRUE, TRUE, FALSE)
    ELSE IF isAuth /\ env.fail = "register"
    THEN [Outcome("nil", "ErrInternalError", TRUE, TRUE, TRUE, FALSE)
             EXCEPT !.authLease = al]
    ELSE IF env.fail = "logResp"
    THEN [Outcome("nil", "ErrInternalError", TRUE, TRUE, TRUE, FALSE)
             EXCEPT !.secretLease = sl, !.authLease = al, !.registered = isSecret]
    ELSE [Outcome(ret, final, TRUE, TRUE, TRUE, TRUE)
             EXCEPT !.secretLease = sl, !.authLease = al, !.registered = isSecret]

\* Core.handleLoginRequest on handles m.
handleLoginRequest(m, path, env) ==
    LET isAuth == env.kind = "auth"
        final == IF env.rerr THEN "backend error" ELSE ""
        ret == IF env.kind = "nil" THEN "nil" ELSE "resp"
        al == IF isAuth THEN ClampLease(env.lease, "root" \in env.policies) ELSE -1
    IN
    IF "auditBroker" \notin m
    THEN Outcome("nil", "panic", FALSE, FALSE, FALSE, FALSE)
    ELSE IF LogRequestFails(env)
    THEN Outcome("nil", "ErrInternalError", FALSE, FALSE, FALSE, FALSE)
    ELSE IF isAuth /\ "tokenStore" \notin m
    THEN Outcome("nil", "panic", FALSE, TRUE, TRUE, FALSE)
    ELSE IF isAuth /\ env.fail = "create"
    THEN Outcome("nil", "ErrInternalError", FALSE, TRUE, TRUE, FALSE)
    ELSE IF isAuth /\ "expiration" \notin m
    THEN [Outcome("nil", "panic", FALSE, TRUE, TRUE, FALSE) EXCEPT !.create = TRUE]
    ELSE IF isAuth /\ env.fail = "register"
    THEN [Outcome("nil", "ErrInternalError", FALSE, TRUE, TRUE, FALSE)
             EXCEPT !.authLease = al, !.create = TRUE]
    ELSE IF env.fail = "logResp"
    THEN [Outcome("nil", "ErrInternalError", FALSE, TRUE, TRUE, FALSE)
             EXCEPT !.authLease = al, !.create = isAuth]
    ELSE [Outcome(ret, final, FALSE, TRUE, TRUE, TRUE)
             EXCEPT !.authLease = al, !.create = isAuth]

\* HandleRequest without the standby test.
StateCheckNoStandby(c) == IF sealed[c] THEN "ErrSealed" ELSE ""

\* The check HandleRequest makes under the read lock: the error it returns
\* at once, "" when the request goes on.
StateCheck(c) ==
    IF sealed[c] THEN "ErrSealed"
    ELSE IF standby[c] THEN "ErrStandby"
    ELSE ""

\* Core.HandleRequest up to the dispatch: the read lock is taken and the
\* sealed and standby flags are checked.
HandleRequestStart(t, c, rop, path, token) ==
    /\ th[t].pc = "idle"
    /\ ~WriterWaiting(c)
    /\ th' = [th EXCEPT ![t] =
                IF StateCheck(c) # ""
                THEN [IdleThread EXCEPT !.ret = "nil", !.err = StateCheck(c)]
                ELSE [IdleThread EXCEPT !.op = "HandleRequest", !.core = c,
                         !.rop = rop, !.path = path, !.token = token,
                         !.pc = "hr_inflight"]]
    /\ UNCHANGED <<ha, physVars, haVars, coreVars, outVars, submitted>>

\* The rest of Core.HandleRequest: the login or the authenticated pipeline,
\* and the release of the read lock.
HandleRequestFinish(t, env) ==
    LET c == th[t].core
        o == IF LoginPath(th[t].path)
             THEN handleLoginRequest(mgr[c], th[t].path, env)
             ELSE handleRequest(mgr[c], th[t].rop, th[t].path, th[t].token, env)
    IN
    /\ th[t].pc = "hr_inflight"
    /\ o.create => Cardinality(tokens) < MaxTokens
    /\ tokens' = IF o.create
                 THEN tokens \cup {[id |-> Cardinality(tokens) + 1,
                                    policies |-> env.policies]}
                 ELSE tokens
    /\ th' = [th EXCEPT ![t] =
                [IdleThread EXCEPT !.ret = o.ret, !.err = o.err,
                    !.checked = o.checked, !.audited = o.audited,
                    !.routed = o.routed, !.respAudited = o.respAudited,
                    !.secretLease = o.secretLease, !.authLease = o.authLease,
                    !.registered = o.registered]]
    /\ UNCHANGED <<ha, sealConfig, keyring, haVars, coreVars, outVars, submitted>>

(* ------------------------------- runStandby ----------------------------- *)

\* runStandby returns: the deferred close(doneCh).
LoopExit(l) == [loops EXCEPT ![l].pc = "exited", ![l].done = TRUE]

\* lock.Unlock() of the loop's lock: the advisory lock is released if this
\* loop holds it.
LockUnlock(l) == IF haLock = l THEN 0 ELSE haLock

\* The head of the loop: the shutdown check, generateUUID and ha.LockWith
\* (fail: LockWith returns an error).
LoopTop(l, fail) ==
    /\ loops[l].pc = "top"
    /\ IF loops[l].stop \/ fail
       THEN /\ loops' = LoopExit(l)
            /\ UNCHANGED nextUUID
       ELSE /\ nextUUID <= MaxUUID
            /\ loops' = [loops EXCEPT ![l].pc = "acquire", ![l].uuid = nextUUID,
                                      ![l].lost = FALSE, ![l].preSeals = 0]
            /\ nextUUID' = nextUUID + 1
    /\ UNCHANGED <<ha, physVars, coreVars, outVars, submitted, th,
                   leaderEntries, haLock, curLoop>>

\* acquireLock: lock.Lock(stopCh) returns the leader channel.
LoopAcquire(l) ==
    /\ loops[l].pc = "acquire"
    /\ haLock = 0
    /\ haLock' = l
    /\ loops' = [loops EXCEPT ![l].pc = "advertise"]
    /\ UNCHANGED <<ha, physVars, coreVars, outVars, submitted, th,
                   leaderEntries, nextUUID, curLoop>>

\* acquireLock: lock.Lock(stopCh) is interrupted by the closed stop channel
\* and returns no leader channel; runStandby returns.
LoopAcquireStopped(l) ==
    /\ loops[l].pc = "acquire"
    /\ loops[l].stop
    /\ loops' = LoopExit(l)
    /\ UNCHANGED <<ha, physVars, coreVars, outVars, submitted, th,
                   leaderEntries, haLock, nextUUID, curLoop>>

\* acquireLock: lock.Lock(stopCh) returns an error; the retry wait begins.
LoopAcquireError(l) ==
    /\ loops[l].pc = "acquire"
    /\ loops' = [loops EXCEPT ![l].pc = "retry"]
    /\ UNCHANGED <<ha, physVars, coreVars, outVars, submitted, th,
                   leaderEntries, haLock, nextUUID, curLoop>>

\* acquireLock: the retry wait ends, by the timer or by the stop channel.
LoopRetry(l, timer) ==
    /\ loops[l].pc = "retry"
    /\ ~timer => loops[l].stop
    /\ loops' = IF timer THEN [loops EXCEPT ![l].pc = "acquire"] ELSE LoopExit(l)
    /\ UNCHANGED <<ha, physVars, coreVars, outVars, submitted, th,
                   leaderEntries, haLock, nextUUID, curLoop>>

\* The loop goes on to the promotion without the leader entry written.
LoopAdvertiseNoEntry(l, fail) ==
    LET c == loops[l].core IN
    /\ loops[l].pc = "advertise"
    /\ IF barrierSealed[c] \/ fail
       THEN /\ haLock' = LockUnlock(l)
            /\ loops' = [loops EXCEPT ![l].pc = "top"]
       ELSE /\ loops' = [loops EXCEPT ![l].pc = "promote"]
            /\ UNCHANGED haLock
    /\ UNCHANGED <<ha, physVars, coreVars, outVars, submitted, th,
                   leaderEntries, nextUUID, curLoop>>

\* advertiseLeader: barrier.Put of core/leader/<uuid>, which fails on a
\* sealed barrier (or when fail); on failure the lock is released and the
\* loop starts over.
LoopAdvertise(l, fail) ==
    LET c == loops[l].core IN
    /\ loops[l].pc = "advertise"
    /\ IF barrierSealed[c] \/ fail
       THEN /\ haLock' = LockUnlock(l)
            /\ loops' = [loops EXCEPT ![l].pc = "top"]
            /\ UNCHANGED leaderEntries
       ELSE /\ leaderEntries' = leaderEntries \cup {<<loops[l].uuid, c>>}
            /\ loops' = [loops EXCEPT ![l].pc = "promote"]
            /\ UNCHANGED haLock
    /\ UNCHANGED <<ha, physVars, coreVars, outVars, submitted, th,
                   nextUUID, curLoop>>

\* The step of postUnseal that fails: loadMounts reads through the barrier
\* and fails when it is sealed.
PostFailOn(c, pfail) == IF barrierSealed[c] THEN 1 ELSE pfail

\* The promotion: postUnseal under the state lock and, when it succeeds,
\* standby = false; when it fails the lock is released and the loop starts
\* over.
LoopPromote(l, pfail) ==
    LET c == loops[l].core
        pu == PostUnseal(mgr[c], PostFailOn(c, pfail))
    IN
    /\ loops[l].pc = "promote"
    /\ WriteLockFree(c)
    /\ mgr' = [mgr EXCEPT ![c] = pu.mgr]
    /\ IF pu.err
       THEN /\ haLock' = LockUnlock(l)
            /\ loops' = [loops EXCEPT ![l].pc = "top"]
            /\ UNCHANGED standby
       ELSE /\ standby' = [standby EXCEPT ![c] = FALSE]
            /\ loops' = [loops EXCEPT ![l].pc = "active"]
            /\ UNCHANGED haLock
    /\ UNCHANGED <<ha, physVars, outVars, submitted, th, leaderEntries,
                   nextUUID, curLoop, sealed, unlockParts, barrierSealed>>

\* The select of the active loop without the case of the leader channel.
LoopActiveStopOnly(l) ==
    /\ loops[l].pc = "active"
    /\ loops[l].stop
    /\ loops' = [loops EXCEPT ![l].pc = "clear"]
    /\ UNCHANGED <<ha, physVars, coreVars, outVars, submitted, th,
                   leaderEntries, haLock, nextUUID, curLoop>>

\* The select of the active loop: the leader channel or the stop channel is
\* closed.
LoopActive(l) ==
    /\ loops[l].pc = "active"
    /\ loops[l].lost \/ loops[l].stop
    /\ loops' = [loops EXCEPT ![l].pc = "clear"]
    /\ UNCHANGED <<ha, physVars, coreVars, outVars, submitted, th,
                   leaderEntries, haLock, nextUUID, curLoop>>

\* clearLeader: barrier.Delete of core/leader/<uuid>; its error (a sealed
\* barrier) is only logged.
LoopClear(l) ==
    LET c == loops[l].core IN
    /\ loops[l].pc = "clear"
    /\ leaderEntries' = IF barrierSealed[c] THEN leaderEntries
                        ELSE leaderEntries \ {<<loops[l].uuid, c>>}
    /\ loops' = [loops EXCEPT ![l].pc = "demote"]
    /\ UNCHANGED <<ha, physVars, coreVars, outVars, submitted, th,
                   haLock, nextUUID, curLoop>>

\* The demotion: standby = true and preSeal under the state lock.
LoopDemote(l, sfail) ==
    LET c == loops[l].core IN
    /\ loops[l].pc = "demote"
    /\ WriteLockFree(c)
    /\ standby' = [standby EXCEPT ![c] = TRUE]
    /\ mgr' = [mgr EXCEPT ![c] = PreSeal(mgr[c], sfail).mgr]
    /\ loops' = [loops EXCEPT ![l].pc = "unlock",
                              ![l].preSeals = loops[l].preSeals + 1]
    /\ UNCHANGED <<ha, physVars, outVars, submitted, th, leaderEntries, haLock,
                   nextUUID, curLoop, sealed, unlockParts, barrierSealed>>

\* Give up leadership: lock.Unlock().
LoopUnlock(l) ==
    /\ loops[l].pc = "unlock"
    /\ haLock' = LockUnlock(l)
    /\ loops' = [loops EXCEPT ![l].pc = "preseal2"]
    /\ UNCHANGED <<ha, physVars, coreVars, outVars, submitted, th,
                   leaderEntries, nextUUID, curLoop>>

\* The second preSeal of the loop, which runs without the state lock; the
\* loop starts over whether it fails or not.
LoopPreSealAgain(l, sfail) ==
    LET c == loops[l].core IN
    /\ loops[l].pc = "preseal2"
    /\ mgr' = [mgr EXCEPT ![c] = PreSeal(mgr[c], sfail).mgr]
    /\ loops' = [loops EXCEPT ![l].pc = "top",
                              ![l].preSeals = loops[l].preSeals + 1]
    /\ UNCHANGED <<ha, physVars, outVars, submitted, th, leaderEntries, haLock,
                   nextUUID, curLoop, sealed, standby, unlockParts, barrierSealed>>

\* The HA backend: the holder loses the lock (its session ends) without
\* having unlocked; its leader channel is closed.
LoseLock(l) ==
    /\ haLock = l
    /\ haLock' = 0
    /\ loops' = [loops EXCEPT ![l].lost = TRUE]
    /\ UNCHANGED <<ha, physVars, coreVars, outVars, submitted, th,
                   leaderEntries, nextUUID, curLoop>>

(* -------------------------------- Leader -------------------------------- *)

\* Leader answers with the address of any leader entry of the barrier.
LeaderOfAnyEntry(c) ==
    IF ~ha THEN <<FALSE, 0, "ErrHANotEnabled">>
    ELSE IF sealed[c] THEN <<FALSE, 0, "ErrSealed">>
    ELSE IF ~standby[c] THEN <<TRUE, c, "">>
    ELSE IF haLock = 0 THEN <<FALSE, 0, "">>
    ELSE IF barrierSealed[c] THEN <<FALSE, 0, "barrier is sealed">>
    ELSE IF leaderEntries = {} THEN <<FALSE, 0, "">>
    ELSE <<FALSE, (CHOOSE e \in leaderEntries :
                      \A f \in leaderEntries : e[1] <= f[1])[2], "">>

\* Core.Leader: <<is_self, address, error>>; an address is the Core that
\* advertised it, 0 the empty string.
LeaderOf(c) ==
    IF ~ha THEN <<FALSE, 0, "ErrHANotEnabled">>
    ELSE IF sealed[c] THEN <<FALSE, 0, "ErrSealed">>
    ELSE IF ~standby[c] THEN <<TRUE, c, "">>
    ELSE IF haLock = 0 THEN <<FALSE, 0, "">>
    ELSE IF barrierSealed[c] THEN <<FALSE, 0, "barrier is sealed">>
    ELSE IF \A e \in leaderEntries : e[1] # loops[haLock].uuid THEN <<FALSE, 0, "">>
    ELSE <<FALSE, (CHOOSE e \in leaderEntries : e[1] = loops[haLock].uuid)[2], "">>

\* A call of Core.Leader, under the read lock; the thread keeps the Core it
\* asked beside the answer.
Leader(t, c) ==
    /\ th[t].pc = "idle"
    /\ ~WriterWaiting(c)
    /\ th' = [th EXCEPT ![t] =
                [IdleThread EXCEPT !.ret = IF LeaderOf(c)[1] THEN "true" ELSE "false",
                    !.addr = LeaderOf(c)[2], !.err = LeaderOf(c)[3],
                    !.core = c, !.site = "Leader"]]
    /\ UNCHANGED <<ha, physVars, haVars, coreVars, outVars, submitted>>

(* ----------------------------- specifications --------------------------- *)

\* The seal configurations given to Initialize, the invalid ones included.
Configs == [n : 0..MaxShares, t : 0..(MaxShares + 1)]

\* The master keys GenerateKey returns.
MasterKeys == {<<1>>, <<3>>}

\* The coefficients Split draws for a threshold t.
Coefs(t) == IF t <= 1 THEN {<<>>} ELSE [1..(t - 1) -> {0, 2}]

\* Keys that are no share of these master keys and coefficients: too short,
\* of the length of a master key, of the length of a share, too long.
WrongKeys == {<<>>, <<0>>, <<4, 1>>, <<0, 0, 0>>}

\* The keys given to Unseal: the shares Initialize returned, and wrong keys.
KeyInputs == {shares[i] : i \in 1..Len(shares)} \cup WrongKeys

\* The tokens given to Seal and HandleRequest: none (0), the ids the token
\* store hands out, and an id it never hands out.
TokenInputs == 0..(MaxTokens + 1)

\* The requests given to HandleRequest.
Requests == [rop : {"read", "write"},
             path : {"secret/foo", "sys/seal", "auth/userpass/login",
                     "auth/token/create"}]

\* The Core of the deployment without HA.
Solo == 1

(* The seal state machine of one Core without HA, one client thread: every
   failure of Initialize, Unseal and Seal, with the seal configurations of
   one share and of two shares. *)

LifeConfigs == {c \in Configs : c.n <= 2 /\ c.t <= 2 /\ c.n + c.t > 0}
LifeRequests == [rop : {"write"}, path : {"secret/foo", "auth/userpass/login"}]
LifeEnvs == Envs({"none", "logReq"}, {"plain", "auth"}, {FALSE}, {0}, {{"sysadmin"}})
RaceEnvs == Envs({"none", "logReq"}, {"plain"}, {FALSE}, {0}, {{"sysadmin"}})

Next ==
    \E t \in {1} :
        \/ \E cfg \in LifeConfigs : InitializeCall(t, Solo, cfg)
        \/ \E failure \in InitFails, coef \in Coefs(th[t].cfg.t) :
              InitializeBody(t, failure, <<1>>, coef)
        \/ \E key \in KeyInputs : UnsealCall(t, Solo, key)
        \/ \E pfail \in PostFails : UnsealBody(t, pfail, 1)
        \/ \E token \in TokenInputs : SealCall(t, Solo, token)
        \/ \E cfail \in CheckFails, sfail \in PreFails : SealBody(t, cfail, sfail)
        \/ \E r \in LifeRequests, token \in TokenInputs :
              HandleRequestStart(t, Solo, r.rop, r.path, token)
        \/ \E env \in LifeEnvs : HandleRequestFinish(t, env)

Spec == Init /\ [][Next]_vars

(* Unseal with every seal configuration, master key and polynomial, one
   client thread: the keys are what varies, the failures are few. *)

NextUnseal ==
    \/ \E cfg \in Configs : InitializeCall(1, Solo, cfg)
    \/ \E failure \in {<<"none", 0>>, <<"generateKey", 0>>},
          masterKey \in MasterKeys, coef \in Coefs(th[1].cfg.t) :
          InitializeBody(1, failure, masterKey, coef)
    \/ \E key \in KeyInputs : UnsealCall(1, Solo, key)
    \/ \E pfail \in {0, 1} : UnsealBody(1, pfail, 1)
    \/ \E token \in {0, 1} : SealCall(1, Solo, token)
    \/ \E sfail \in {0, 1} : SealBody(1, "none", sfail)

SpecUnseal == Init /\ [][NextUnseal]_vars

(* One Core without HA, every client thread: the calls interleave at the
   state lock; the failures are few. *)

RaceConfigs == {[n |-> 1, t |-> 1], [n |-> 2, t |-> 2], [n |-> 1, t |-> 2]}

NextRace ==
    \E t \in Threads :
        \/ \E cfg \in RaceConfigs : InitializeCall(t, Solo, cfg)
        \/ \E failure \in {<<"none", 0>>, <<"put", 0>>, <<"generateKey", 0>>,
                           <<"rootToken", 0>>} :
              InitializeBody(t, failure, <<1>>, <<2>>)
              \/ InitializeBody(t, failure, <<3>>, <<>>)
        \/ \E key \in KeyInputs \ {<<0, 0, 0>>, <<>>} : UnsealCall(t, Solo, key)
        \/ \E pfail \in {0, 1} : UnsealBody(t, pfail, 1)
        \/ SealCall(t, Solo, 1)
        \/ SealBody(t, "none", 0)
        \/ HandleRequestStart(t, Solo, "write", "secret/foo", 1)
        \/ \E env \in RaceEnvs : HandleRequestFinish(t, env)

SpecRace == Init /\ [][NextRace]_vars

HAConfig == [n |-> 1, t |-> 1]

\* The steps of the client thread t on the Cores cs of an HA deployment.
ClientHA(t, cs) ==
    \/ \E c \in cs : InitializeCall(t, c, HAConfig)
    \/ \E failure \in {<<"none", 0>>, <<"generateKey", 0>>} :
          InitializeBody(t, failure, <<1>>, <<>>)
    \/ \E c \in cs, key \in KeyInputs \ WrongKeys : UnsealCall(t, c, key)
    \/ \E l \in Loops : UnsealBody(t, 0, l)
    \/ \E c \in cs, token \in {0, 1} : SealCall(t, c, token)
    \/ SealBody(t, "none", 0)
    \/ SealReadDoneCh(t)
    \/ SealRecvDone(t)
    \/ SealRelock(t)
    \/ \E c \in cs : HandleRequestStart(t, c, "write", "secret/foo", 1)
    \/ \E env \in RaceEnvs : HandleRequestFinish(t, env)
    \/ \E c \in cs : Leader(t, c)

\* The steps of the standby loop l and of the HA backend on its lock.
StandbyHA(l) ==
    \/ \E fail \in BOOLEAN : LoopTop(l, fail)
    \/ LoopAcquire(l)
    \/ LoopAcquireStopped(l)
    \/ LoopAcquireError(l)
    \/ \E timer \in BOOLEAN : LoopRetry(l, timer)
    \/ \E fail \in BOOLEAN : LoopAdvertise(l, fail)
    \/ \E pfail \in {0, 1} : LoopPromote(l, pfail)
    \/ LoopActive(l)
    \/ LoopClear(l)
    \/ \E sfail \in {0, 3} : LoopDemote(l, sfail)
    \/ LoopUnlock(l)
    \/ \E sfail \in {0, 3} : LoopPreSealAgain(l, sfail)
    \/ LoseLock(l)

(* Two Cores over one HA backend, one client thread calling either Core. *)

NextHA ==
    \/ ClientHA(1, Cores)
    \/ \E l \in Loops : StandbyHA(l)

SpecHA == InitHA /\ [][NextHA]_vars

(* One Core over an HA backend, every client thread calling it. *)

NextHASeal ==
    \/ \E t \in Threads : ClientHA(t, {Solo})
    \/ \E l \in Loops : StandbyHA(l)

SpecHASeal == InitHA /\ [][NextHASeal]_vars

(* The request pipeline of one Core without HA, one client thread: every
   request, token, failure of a collaborator and response of a backend. *)

\* The lease durations a backend gives: negative, none, within the limits,
\* above the maximum.
Leases == {-2, 0, MaxLease, MaxLease + 1}

\* A response without Secret and Auth has no lease and no policies and may
\* come with an error of the backend; a Secret has a lease; an Auth has a
\* lease and policies.
PipelineEnvs ==
    Envs(RequestFails, {"nil", "plain"}, BOOLEAN, {0}, {{}})
    \cup Envs(RequestFails, {"secret"}, {FALSE}, Leases, {{}})
    \cup Envs(RequestFails, {"auth"}, {FALSE}, Leases,
              {{"root"}, {"sysadmin"}, {"readonly"}})

NextRequest ==
    \/ InitializeCall(1, Solo, HAConfig)
    \/ InitializeBody(1, <<"none", 0>>, <<1>>, <<>>)
    \/ \E key \in KeyInputs \ WrongKeys : UnsealCall(1, Solo, key)
    \/ \E pfail \in {0, 4, 7} : UnsealBody(1, pfail, 1)
    \/ SealCall(1, Solo, 1)
    \/ SealBody(1, "none", 0)
    \/ \E r \in Requests, token \in TokenInputs :
          HandleRequestStart(1, Solo, r.rop, r.path, token)
    \/ \E env \in PipelineEnvs : HandleRequestFinish(1, env)

SpecRequest == Init /\ [][NextRequest]_vars

(* Two Cores over one HA backend under fair scheduling: the standby loops
   run without failures of their calls, the lock can be lost at any time. *)

\* generateUUID in an unbounded run: a uuid that no loop and no leader entry
\* refers to (a uuid nothing refers to any more is as good as a new one).
FreshUUIDs(l) ==
    (1..MaxUUID) \ ({loops[k].uuid : k \in Loops \ {l}}
                      \cup {e[1] : e \in leaderEntries})

\* The head of the loop, as LoopTop, with FreshUUIDs for generateUUID.
LoopTopFresh(l) ==
    /\ loops[l].pc = "top"
    /\ IF loops[l].stop
       THEN loops' = LoopExit(l)
       ELSE /\ FreshUUIDs(l) # {}
            /\ loops' = [loops EXCEPT
                            ![l].pc = "acquire",
                            ![l].uuid = CHOOSE u \in FreshUUIDs(l) :
                                           \A v \in FreshUUIDs(l) : u <= v,
                            ![l].lost = FALSE, ![l].preSeals = 0]
    /\ UNCHANGED <<ha, physVars, coreVars, outVars, submitted, th,
                   leaderEntries, haLock, nextUUID, curLoop>>

\* The steps of the standby loop l when none of its calls fails.
LoopLive(l) ==
    \/ LoopTopFresh(l)
    \/ LoopAcquire(l)
    \/ LoopAdvertise(l, FALSE)
    \/ LoopPromote(l, 0)
    \/ LoopActive(l)
    \/ LoopClear(l)
    \/ LoopDemote(l, 0)
    \/ LoopUnlock(l)
    \/ LoopPreSealAgain(l, 0)

\* The steps of the client thread t that bring the Cores cs to run their
\* standby loops, and its requests.
ClientLive(t, cs) ==
    \/ \E c \in cs : InitializeCall(t, c, HAConfig)
    \/ InitializeBody(t, <<"none", 0>>, <<1>>, <<>>)
    \/ \E c \in cs, key \in KeyInputs \ WrongKeys : UnsealCall(t, c, key)
    \/ \E l \in Loops : UnsealBody(t, 0, l)
    \/ \E c \in cs : HandleRequestStart(t, c, "write", "secret/foo", 1)
    \/ \E env \in RaceEnvs : HandleRequestFinish(t, env)

NextHALive ==
    \/ ClientLive(1, Cores)
    \/ \E l \in Loops : LoopLive(l)
    \/ \E l \in Loops : LoseLock(l)

\* Every goroutine is scheduled: a standby loop that can take a step takes
\* one, and a request in flight returns.  Nothing makes the lock get lost.
FairHALive ==
    /\ \A l \in Loops : WF_vars(LoopLive(l))
    /\ WF_vars(\E env \in RaceEnvs : HandleRequestFinish(1, env))

SpecHALive == InitHA /\ [][NextHALive]_vars /\ FairHALive

\* The Core a is active and the leader channel of its loop is closed.
LostActive(a) ==
    /\ ~sealed[a] /\ ~standby[a]
    /\ \E l \in Loops : loops[l].core = a /\ loops[l].pc = "active" /\ loops[l].lost

\* The unsealed Core b runs its standby loop, up to lock.Lock.
Running(b) ==
    /\ ~sealed[b] /\ standby[b]
    /\ \E l \in Loops :
          loops[l].core = b /\ loops[l].pc \in {"top", "acquire"} /\ ~loops[l].stop

\* A loop of the Core a holds the lock.
HoldsLock(a) == \E l \in Loops : loops[l].core = a /\ haLock = l

(* One Core over an HA backend under fair scheduling, every client thread
   calling it, the calls of the standby loops failing or not. *)

\* The steps of a client thread that is inside a call: Go schedules every
\* goroutine that can run.
ClientStep(t) ==
    \/ InitializeBody(t, <<"none", 0>>, <<1>>, <<>>)
    \/ \E l \in Loops : UnsealBody(t, 0, l)
    \/ SealBody(t, "none", 0)
    \/ SealReadDoneCh(t)
    \/ SealRecvDone(t)
    \/ SealRelock(t)
    \/ \E env \in RaceEnvs : HandleRequestFinish(t, env)

\* Every goroutine that can take a step takes one; a loop whose stop channel
\* is closed leaves lock.Lock(stopCh) and the retry wait, whose timer is not
\* due when the wait begins.
FairHASeal ==
    /\ \A t \in Threads : WF_vars(ClientStep(t))
    /\ \A l \in Loops :
          /\ WF_vars(StandbyHA(l))
          /\ SF_vars(LoopAcquireStopped(l))
          /\ SF_vars(LoopRetry(l, FALSE))

SpecHASealLive == InitHA /\ [][NextHASeal]_vars /\ FairHASeal

(* --------------------------------- claims ------------------------------- *)

\* The shares the successful Initialize returned.
ShareSet == {shares[i] : i \in 1..Len(shares)}

\* C1: HandleRequest on a sealed Core returns (nil, ErrSealed), and on an
\* unsealed Core in standby (nil, ErrStandby); in neither case is the request
\* token-checked, audited or routed, and nothing of the Core changes.
C1_SealedStandbyRejected ==
    [][\A t \in Threads, c \in Cores :
          /\ th[t].pc = "idle" /\ th'[t] # th[t]
          /\ sealed[c] \/ standby[c]
          => \A r \in Requests, token \in TokenInputs :
                HandleRequestStart(t, c, r.rop, r.path, token)
                => /\ th'[t].pc = "idle"
                   /\ th'[t].ret = "nil"
                   /\ th'[t].err = IF sealed[c] THEN "ErrSealed" ELSE "ErrStandby"
                   /\ ~th'[t].checked /\ ~th'[t].audited /\ ~th'[t].routed
                   /\ UNCHANGED <<physVars, coreVars, haVars>>]_vars

\* A request was refused with ErrStandby by a Core that is unsealed and in
\* standby.
C1_Witness ==
    \E t \in Threads, c \in Cores :
        /\ th[t].pc = "idle" /\ th[t].ret = "nil" /\ th[t].err = "ErrStandby"
        /\ ~sealed[c] /\ standby[c]

\* C2: while fewer than T distinct keys have been given to Unseal since the
\* initialized Core was last sealed, every Unseal returns unsealed = false,
\* Sealed() stays true and barrier.Unseal is not called.
C2_FewerThanTStaysSealed ==
    [][\A t \in Threads :
          LET c == th[t].core IN
          /\ th[t].pc = "unseal_lock" /\ th'[t].pc = "idle"
          /\ sealed[c]
          /\ keyring # <<>> /\ sealConfig # NoConfig
          /\ Cardinality(submitted'[c]) < sealConfig.t
          => /\ th'[t].ret = "false"
             /\ th'[t].err \notin {"barrier: invalid key", "postUnseal"}
             /\ sealed'[c]
             /\ UNCHANGED <<barrierSealed, mgr, standby, curLoop>>]_vars

\* Unseal has returned false on an initialized Core that holds a part and
\* was given fewer than T distinct keys.
C2_Witness ==
    \E c \in Cores :
        /\ keyring # <<>> /\ sealConfig # NoConfig
        /\ sealed[c] /\ Len(unlockParts[c]) >= 1
        /\ Cardinality(submitted[c]) < sealConfig.t
        /\ th[1].pc = "idle" /\ th[1].ret = "false" /\ th[1].site = "not enough"

\* C3: for every valid seal configuration (N, T), once Initialize has
\* returned its N shares, the Unseal that brings the T-th distinct share to
\* the sealed Core returns unsealed = true and Sealed() becomes false
\* (postUnseal not failing).
C3_TSharesUnseal ==
    [][\A t \in Threads :
          LET c == th[t].core
              parts == unlockParts[c]
              given == {parts[i] : i \in 1..Len(parts)} \cup {th[t].key}
          IN
          /\ th[t].pc = "unseal_lock" /\ th'[t].pc = "idle"
          /\ sealed[c]
          /\ keyring # <<>> /\ Validate(sealConfig) = ""
          /\ Len(shares) = sealConfig.n
          /\ given \subseteq ShareSet
          /\ Len(parts) = sealConfig.t - 1
          /\ Cardinality(given) = sealConfig.t
          /\ th'[t].err # "postUnseal"
          => th'[t].ret = "true" /\ ~sealed'[c]]_vars

\* C4 as stated: on a sealed Core that holds T-1 distinct correct shares, an
\* Unseal with a wrong key of acceptable length fails and resets nothing:
\* the parts and SecretProgress() are what they were.
C4_WrongKeyResetsNothing ==
    [][\A t \in Threads :
          LET c == th[t].core
              parts == unlockParts[c]
              held == {parts[i] : i \in 1..Len(parts)}
          IN
          /\ th[t].pc = "unseal_lock" /\ th'[t].pc = "idle"
          /\ sealed[c]
          /\ keyring # <<>> /\ Validate(sealConfig) = ""
          /\ Len(shares) = sealConfig.n
          /\ held \subseteq ShareSet
          /\ Len(parts) = sealConfig.t - 1 /\ Cardinality(held) = sealConfig.t - 1
          /\ th[t].key \notin ShareSet
          => /\ th'[t].ret = "false" /\ th'[t].err # ""
             /\ unlockParts'[c] = unlockParts[c]]_vars

\* C4 amended: on a sealed Core that holds T-1 distinct correct shares, an
\* Unseal with a wrong key of acceptable length fails with an error (of the
\* barrier or of the recovery of the master key), the Core stays sealed, and
\* the parts are discarded: SecretProgress() is 0 afterwards.
C4_WrongKeyResetsProgress ==
    [][\A t \in Threads :
          LET c == th[t].core
              parts == unlockParts[c]
              held == {parts[i] : i \in 1..Len(parts)}
          IN
          /\ th[t].pc = "unseal_lock" /\ th'[t].pc = "idle"
          /\ sealed[c]
          /\ keyring # <<>> /\ Validate(sealConfig) = ""
          /\ Len(shares) = sealConfig.n
          /\ held \subseteq ShareSet
          /\ Len(parts) = sealConfig.t - 1 /\ Cardinality(held) = sealConfig.t - 1
          /\ th[t].key \notin ShareSet
          => /\ th'[t].ret = "false"
             /\ th'[t].err \in {"barrier: invalid key", "failed to compute master key"}
             /\ Len(unlockParts'[c]) = 0
             /\ sealed'[c]
             /\ UNCHANGED <<barrierSealed, mgr, standby>>]_vars

\* A wrong key was refused by the barrier on a Core of threshold two or more,
\* and no part is left.
C4_Witness ==
    /\ keyring # <<>> /\ sealConfig.t >= 2 /\ Len(shares) = sealConfig.n
    /\ th[1].pc = "idle" /\ th[1].ret = "false" /\ th[1].err = "barrier: invalid key"
    /\ \E k \in submitted[Solo] : k \in ShareSet
    /\ \E k \in submitted[Solo] : k \notin ShareSet
    /\ Cardinality(submitted[Solo]) = sealConfig.t
    /\ unlockParts[Solo] = <<>> /\ sealed[Solo]

\* C5: an Unseal with a key the sealed Core already holds returns
\* unsealed = false and no error, and leaves the parts, SecretProgress() and
\* the rest of the Core as they were, however often it is repeated.
C5_DuplicateKeyIdempotent ==
    [][\A t \in Threads :
          LET c == th[t].core
              parts == unlockParts[c]
          IN
          /\ th[t].pc = "unseal_lock" /\ th'[t].pc = "idle"
          /\ sealed[c]
          /\ \E i \in 1..Len(parts) : parts[i] = th[t].key
          => /\ th'[t].ret = "false" /\ th'[t].err = ""
             /\ unlockParts'[c] = unlockParts[c]
             /\ UNCHANGED <<physVars, coreVars, haVars>>]_vars

\* Unseal returned at "we already have this piece" on a Core that holds
\* two parts.
C5_Witness ==
    /\ th[1].pc = "idle" /\ th[1].ret = "false" /\ th[1].site = "have piece"
    /\ sealed[Solo] /\ Len(unlockParts[Solo]) >= 2

\* C6: over every interleaving of Initialize calls on one Core at most one
\* call returns an InitResult; an Initialize that finds the Core initialized
\* fails with ErrAlreadyInit and leaves the persisted seal configuration,
\* the keyring and the sealed and standby flags as they were.
C6_InitializeOnce ==
    [][/\ nInitResults' <= 1
       /\ \A t \in Threads :
             /\ th[t].pc = "init_lock" /\ th'[t].pc = "idle"
             /\ keyring # <<>> /\ sealConfig # NoConfig
             => /\ th'[t].ret = "nil" /\ th'[t].err = "ErrAlreadyInit"
                /\ UNCHANGED <<sealConfig, keyring, tokens, sealed, standby,
                               barrierSealed, shares, nInitResults>>]_vars

\* One Initialize returned its result and a later one ErrAlreadyInit.
C6_Witness ==
    /\ nInitResults = 1
    /\ \E t \in Threads :
          th[t].pc = "idle" /\ th[t].ret = "nil" /\ th[t].err = "ErrAlreadyInit"

\* C7: Initialize never unseals the Core: it leaves the sealed flag as it
\* was; when it gets past the ErrAlreadyInit check it returns, with a result
\* or with an error, on a Core whose sealed flag is true and whose barrier is
\* sealed; and an initialized Core stays sealed (so HandleRequest returns
\* ErrSealed) while fewer than T distinct keys have been given to Unseal.
C7_InitializeLeavesSealed ==
    [][/\ \A t \in Threads :
             LET c == th[t].core IN
             th[t].pc = "init_lock" /\ th'[t].pc = "idle"
             => /\ sealed'[c] = sealed[c]
                /\ barrierSealed[c] => barrierSealed'[c]
                /\ th'[t].err # "ErrAlreadyInit"
                   => sealed'[c] /\ barrierSealed'[c] /\ unlockParts'[c] = unlockParts[c]
       /\ \A c \in Cores :
             /\ keyring' # <<>> /\ sealConfig' # NoConfig
             /\ Cardinality(submitted'[c]) < sealConfig'.t
             => sealed'[c]]_vars

\* Initialize has returned its result and the Core is sealed, its barrier
\* sealed and its managers torn down.
C7_Witness ==
    /\ nInitResults = 1
    /\ th[1].pc = "idle" /\ th[1].ret = "InitResult"
    /\ sealed[Solo] /\ barrierSealed[Solo] /\ mgr[Solo] = {}

\* C8: Seal on an unsealed Core takes effect only for a token that the token
\* store knows and whose policies give root privilege; when the token check
\* fails Seal returns the error and the sealed flag, the standby flag, the
\* standby loop, the managers and the barrier are as they were, so that
\* requests are still served.
C8_SealNeedsRootToken ==
    [][\A t \in Threads :
          LET c == th[t].core
              rootToken == /\ th[t].token # 0
                           /\ \E te \in tokens :
                                 te.id = th[t].token /\ "root" \in te.policies
          IN
          th[t].pc = "seal_lock" /\ th'[t].pc # "seal_lock" /\ ~sealed[c]
          => /\ ~rootToken
                => th'[t].err \in {"missing client token", "ErrPermissionDenied",
                                   "ErrInternalError", "panic"}
             /\ th'[t].err \in {"missing client token", "ErrPermissionDenied",
                                "ErrInternalError"}
                => /\ th'[t].pc = "idle" /\ th'[t].ret = "nil"
                   /\ ~sealed'[c]
                   /\ UNCHANGED <<coreVars, haVars, physVars>>
             /\ ~UNCHANGED <<coreVars, haVars>> => rootToken]_vars

\* Seal has returned ErrPermissionDenied for a token and the Core is still
\* unsealed, active and holds its managers.
C8_Witness ==
    /\ th[1].pc = "idle" /\ th[1].ret = "nil" /\ th[1].err = "ErrPermissionDenied"
    /\ th[1].checked
    /\ ~sealed[Solo] /\ ~standby[Solo] /\ ~barrierSealed[Solo]
    /\ "tokenStore" \in mgr[Solo]
    /\ \E te \in tokens : "root" \notin te.policies

\* C9: while a HandleRequest that passed the sealed and standby check is in
\* flight on a Core, no step tears down a manager of that Core or seals its
\* barrier; and no request passes the check on a Core marked sealed.
C9_InFlightUndisturbed ==
    [][/\ \A c \in Cores :
             (\E t \in Threads : th[t].core = c /\ th[t].pc = "hr_inflight")
             => /\ mgr[c] \subseteq mgr'[c]
                /\ barrierSealed'[c] => barrierSealed[c]
       /\ \A t \in Threads :
             th[t].pc = "idle" /\ th'[t].pc = "hr_inflight"
             => ~sealed[th'[t].core]]_vars

\* C10: in every state at most one Core reports Leader() = (true, _).
C10_SingleLeader ==
    Cardinality({c \in Cores : LeaderOf(c)[1]}) <= 1

\* C11 as stated: when the active Core A has lost the lock while the unsealed
\* Core B runs its standby loop, A eventually is in standby and B eventually
\* reports Leader() = (true, addr_B).
C11_FailoverToB ==
    /\ (LostActive(1) /\ Running(2)) ~> standby[1]
    /\ (LostActive(1) /\ Running(2)) ~> (LeaderOf(2) = <<TRUE, 2, "">>)
    /\ (LostActive(2) /\ Running(1)) ~> standby[2]
    /\ (LostActive(2) /\ Running(1)) ~> (LeaderOf(1) = <<TRUE, 1, "">>)

\* C11 amended: when the active Core A has lost the lock while the unsealed
\* Core B runs its standby loop, A eventually is in standby, and eventually
\* B reports Leader() = (true, addr_B) or a loop of A holds the lock again.
C11_FailoverLive ==
    /\ (LostActive(1) /\ Running(2)) ~> standby[1]
    /\ (LostActive(1) /\ Running(2)) ~> (LeaderOf(2) = <<TRUE, 2, "">> \/ HoldsLock(1))
    /\ (LostActive(2) /\ Running(1)) ~> standby[2]
    /\ (LostActive(2) /\ Running(1)) ~> (LeaderOf(1) = <<TRUE, 1, "">> \/ HoldsLock(2))

\* The Core 1 has lost the lock and been demoted, and the Core 2 holds the
\* lock and reports Leader() = (true, 2).
C11_Witness ==
    /\ standby[1] /\ ~sealed[1]
    /\ \E l \in Loops :
          loops[l].core = 1 /\ loops[l].lost /\ loops[l].pc \in {"unlock", "preseal2"}
    /\ HoldsLock(2)
    /\ LeaderOf(2) = <<TRUE, 2, "">>

\* C12: in every state in which an unsealed Core of an HA deployment is
\* active (standby = false), a loop of that Core holds the advisory lock
\* under its uuid and the barrier holds the entry core/leader/<uuid> with the
\* address of that Core.
C12_ActiveHoldsLock ==
    \A c \in Cores :
        ha /\ ~sealed[c] /\ ~standby[c]
        => \E l \in Loops :
              /\ loops[l].core = c
              /\ haLock = l
              /\ <<loops[l].uuid, c>> \in leaderEntries

\* C12 amended: in every state in which the standby loop of a Core has
\* promoted it and waits in its select with neither the leader channel nor
\* the stop channel closed, that loop holds the advisory lock under its uuid
\* and the barrier holds the entry core/leader/<uuid> with the address of
\* that Core.
C12_ActiveHoldsLockUntilSignalled ==
    \A c \in Cores, l \in Loops :
        /\ loops[l].core = c
        /\ loops[l].pc = "active" /\ ~loops[l].lost /\ ~loops[l].stop
        => /\ haLock = l
           /\ <<loops[l].uuid, c>> \in leaderEntries

\* The Core 2 is unsealed and active, its loop waits in the select with no
\* channel closed, holds the lock and has its leader entry in the barrier.
C12_Witness ==
    /\ ~sealed[2] /\ ~standby[2]
    /\ \E l \in Loops :
          /\ loops[l].core = 2
          /\ loops[l].pc = "active" /\ ~loops[l].lost /\ ~loops[l].stop
          /\ haLock = l /\ <<loops[l].uuid, 2>> \in leaderEntries

\* C13: Leader() on an unsealed Core in standby returns is_self = false; an
\* address it returns is the one stored at core/leader/<uuid> for the uuid
\* of the loop that holds the lock, which is the address of that loop's
\* Core, never that of another Core; and it returns that address, without
\* an error, whenever the holder has advertised and the barrier of the Core
\* asked is unsealed.
C13_StandbyReportsHolder ==
    [][\A t \in Threads, c \in Cores :
          /\ th[t].pc = "idle" /\ th'[t] # th[t]
          /\ ha /\ ~sealed[c] /\ standby[c]
          /\ Leader(t, c)
          => /\ th'[t].ret = "false"
             /\ th'[t].addr # 0
                => \E l \in Loops :
                      /\ haLock = l
                      /\ loops[l].core = th'[t].addr
                      /\ <<loops[l].uuid, th'[t].addr>> \in leaderEntries
             /\ \A l \in Loops :
                   /\ haLock = l
                   /\ <<loops[l].uuid, loops[l].core>> \in leaderEntries
                   /\ ~barrierSealed[c]
                   => th'[t].addr = loops[l].core /\ th'[t].err = ""]_vars

\* Leader() on the Core 2, unsealed and in standby, has answered
\* (false, 1) while the Core 1 is active and holds the lock.
C13_Witness ==
    /\ th[1].pc = "idle" /\ th[1].site = "Leader" /\ th[1].core = 2
    /\ th[1].ret = "false" /\ th[1].addr = 1 /\ th[1].err = ""
    /\ ~sealed[2] /\ standby[2]
    /\ ~sealed[1] /\ ~standby[1] /\ HoldsLock(1)

\* C14: whichever step of postUnseal fails, an Unseal that gets to postUnseal
\* returns unsealed = false with the error and leaves the Core sealed, its
\* barrier sealed again.
C14_PostUnsealFailureSeals ==
    [][\A t \in Threads, pfail \in PostFails \ {0} :
          LET c == th[t].core IN
          /\ th[t].pc = "unseal_lock" /\ th'[t].pc = "idle"
          /\ ~ha /\ sealed[c]
          /\ UnsealBody(t, pfail, 1)
          /\ th'[t].ret = "true" \/ th'[t].err = "postUnseal"
          => /\ th'[t].ret = "false" /\ th'[t].err = "postUnseal"
             /\ sealed'[c] /\ barrierSealed'[c]]_vars

(* C15: on an active unsealed Core a request that is no login is routed
   only if its client token is non-empty and found in the token store, the
   ACL of the token's policies allows the operation on the path, and the
   path is not root protected or the ACL has root privilege; every other
   request is rejected with an error response and is not routed.  A request
   that satisfies the three conditions is routed whenever the token store,
   the policy store and the audit broker are set up and return no error. *)
Authorized(rop, path, token) ==
    /\ token # 0
    /\ \E te \in tokens :
          /\ te.id = token
          /\ AllowOperation(te.policies, rop, path)
          /\ ~RootPath(path) \/ RootPrivilege(te.policies, path)

C15_RoutedIffAuthorized ==
    [][\A t \in Threads :
          th[t].pc = "hr_inflight" /\ th'[t].pc = "idle"
          /\ ~LoginPath(th[t].path)
          /\ ~sealed[th[t].core] /\ ~standby[th[t].core]
          => \A env \in PipelineEnvs :
                HandleRequestFinish(t, env)
                => LET c == th[t].core
                       ok == Authorized(th[t].rop, th[t].path, th[t].token)
                   IN
                   /\ th'[t].routed => ok
                   /\ ~ok => /\ ~th'[t].routed
                             /\ \/ th'[t].err = "panic"
                                \/ /\ th'[t].ret = "resp"
                                   /\ th'[t].err \in {"ErrPermissionDenied",
                                                        "ErrInvalidRequest",
                                                        "ErrInternalError"}
                   /\ /\ ok
                      /\ {"tokenStore", "policy", "auditBroker"} \subseteq mgr[c]
                      /\ env.fail \notin CheckFails \ {"none"}
                      /\ env.fail # "logReq"
                      => th'[t].routed]_vars

\* A request has been routed while the token store holds a token without
\* the root policy, and its answer was returned.
C15_Witness ==
    /\ \E te \in tokens : "root" \notin te.policies
    /\ th[1].pc = "idle" /\ th[1].checked /\ th[1].routed
    /\ th[1].ret = "resp" /\ th[1].err = ""

(* C16: on both paths a request is routed only after LogRequest returned
   without error; when LogRequest fails the request is not routed and the
   client gets ErrInternalError and no response; when LogResponse fails the
   client gets ErrInternalError and no response. *)
LogRequestReached(t) ==
    LET c == th[t].core IN
    /\ "auditBroker" \in mgr[c]
    /\ \/ LoginPath(th[t].path)
       \/ /\ Authorized(th[t].rop, th[t].path, th[t].token)
          /\ {"tokenStore", "policy"} \subseteq mgr[c]

C16_AuditBracketsRoute ==
    [][\A t \in Threads :
          th[t].pc = "hr_inflight" /\ th'[t].pc = "idle"
          => \A env \in PipelineEnvs :
                HandleRequestFinish(t, env)
                => /\ th'[t].routed => th'[t].audited
                   /\ env.fail = "logReq"
                      => /\ ~th'[t].routed /\ ~th'[t].audited
                         /\ LogRequestReached(t)
                            => th'[t].ret = "nil" /\ th'[t].err = "ErrInternalError"
                   /\ env.fail = "logResp" /\ th'[t].routed
                      => /\ ~th'[t].respAudited
                         /\ th'[t].ret = "nil"
                         /\ th'[t].err \in {"ErrInternalError", "panic"}
                         /\ env.kind \in {"nil", "plain"}
                            => th'[t].err = "ErrInternalError"]_vars

\* LogRequest failed on the authenticated path after the token passed the
\* check: nothing was routed, the client got ErrInternalError.
C16_Witness ==
    /\ th[1].pc = "idle" /\ th[1].checked /\ ~th[1].audited /\ ~th[1].routed
    /\ th[1].ret = "nil" /\ th[1].err = "ErrInternalError"

(* C17: every request that was routed has LogResponse invoked before
   HandleRequest returns, on every exit path: after a failed registration
   of a lease, a failed creation of a token, a failed registration of an
   Auth, and an Auth from a backend that is not the token store.  Here: a
   routed request whose LogResponse call would not fail returns with its
   response audited (a panic apart). *)
C17_RoutedResponseAudited ==
    [][\A t \in Threads :
          th[t].pc = "hr_inflight" /\ th'[t].pc = "idle"
          => \A env \in PipelineEnvs :
                /\ HandleRequestFinish(t, env)
                /\ th'[t].routed
                /\ th'[t].err # "panic"
                /\ env.fail # "logResp"
                => th'[t].respAudited]_vars

(* C18: a response carrying a secret is returned to the client only after
   expiration.Register succeeded for it; when Register fails the client
   gets ErrInternalError and no response. *)
C18_SecretReturnedRegistered ==
    [][\A t \in Threads :
          th[t].pc = "hr_inflight" /\ th'[t].pc = "idle"
          => \A env \in PipelineEnvs :
                /\ HandleRequestFinish(t, env)
                /\ th'[t].routed
                /\ env.kind = "secret"
                => /\ th'[t].ret = "resp" => th'[t].registered
                   /\ env.fail = "register" /\ th'[t].err # "panic"
                      => th'[t].ret = "nil" /\ th'[t].err = "ErrInternalError"]_vars

(* C19 as stated: every lease duration the pipeline hands to the expiration
   manager, for a Secret or for an Auth, is positive and at most
   maxLeaseDuration. *)
C19_LeasePositiveWithinMax ==
    \A t \in Threads :
        /\ th[t].secretLease # -1
           => 0 < th[t].secretLease /\ th[t].secretLease <= MaxLease
        /\ th[t].authLease # -1
           => 0 < th[t].authLease /\ th[t].authLease <= MaxLease

(* C19 as the code has it: every lease duration handed to the expiration
   manager is at most maxLeaseDuration; a duration of zero becomes
   defaultLeaseDuration, except for an Auth with the root policy, whose zero
   stays zero; a duration above the maximum becomes the maximum; every other
   duration, a negative one included, is registered as given.  So the
   registered duration is positive when the backend's is not negative and
   the lease is not that of a root Auth. *)
Clamped(d, lease, exempt) ==
    /\ d <= MaxLease
    /\ lease = 0 /\ ~exempt => d = DefaultLease
    /\ lease = 0 /\ exempt => d = 0
    /\ lease > MaxLease => d = MaxLease
    /\ lease # 0 /\ lease <= MaxLease => d = lease
    /\ lease >= 0 /\ ~exempt => 0 < d

C19_LeaseClamped ==
    [][\A t \in Threads :
          th[t].pc = "hr_inflight" /\ th'[t].pc = "idle"
          => \A env \in PipelineEnvs :
                HandleRequestFinish(t, env)
                => /\ th'[t].secretLease # -1
                      => /\ env.kind = "secret"
                         /\ Clamped(th'[t].secretLease, env.lease, FALSE)
                   /\ th'[t].authLease # -1
                      => /\ env.kind = "auth"
                         /\ Clamped(th'[t].authLease, env.lease,
                                    "root" \in env.policies)
                   /\ th'[t].registered => th'[t].secretLease # -1]_vars

\* An Auth with the root policy and no lease duration was registered with
\* the duration zero, and its response returned.
C19_Witness ==
    /\ th[1].pc = "idle" /\ th[1].routed /\ th[1].respAudited
    /\ th[1].authLease = 0 /\ th[1].ret = "resp"

(* C20: each transition of the standby loop from active to standby, by the
   closed leader channel or by the stop channel, runs preSeal exactly once:
   from the demotion on, the loop has run preSeal once when it is back at
   its head, and never more than once. *)
C20_OnePreSealPerDemotion ==
    \A l \in Loops :
        /\ loops[l].preSeals <= 1
        /\ loops[l].pc \in {"unlock", "preseal2"} => loops[l].preSeals = 1

(* C21: whenever HandleRequest observes sealed = false and standby = false,
   every step of the latest postUnseal has succeeded and no preSeal has run
   since: every handle postUnseal sets up is set up. *)
AllHandles == UnionUpTo(PostSteps, Len(PostSteps)) \cup {"metricsCh"}

C21_RequestSeesManagers ==
    [][\A t \in Threads :
          th[t].pc = "idle" /\ th'[t].pc = "hr_inflight"
          => mgr[th'[t].core] = AllHandles]_vars

(* C22: on an HA node a Seal that has passed the token check, closed the
   stop channel and released the state lock eventually returns, whatever
   the standby loop is doing and whatever the other callers do. *)
C22_SealReturns ==
    \A t \in Threads : (th[t].pc = "seal_wait") ~> (th[t].pc = "idle")

(* C23: every run of postUnseal and of preSeal and every write to sealed,
   standby and the unlock parts is made by a caller that holds the state
   write lock, so none of them happens while a request holds the read
   lock. *)
\* The step is the section of a client call or of a standby loop that holds
\* the write lock of the Core c.
LockedStep(c) ==
    \/ \E t \in Threads :
          /\ th[t].core = c
          /\ th[t].pc \in {"init_lock", "unseal_lock", "seal_lock", "seal_relock"}
          /\ th'[t].pc # th[t].pc
    \/ \E l \in Loops :
          /\ loops[l].core = c
          /\ loops[l].pc \in {"promote", "demote"}
          /\ loops'[l].pc # loops[l].pc

\* The step writes state of the Core c that the lock guards, or runs preSeal.
GuardedWrite(c) ==
    \/ mgr'[c] # mgr[c]
    \/ sealed'[c] # sealed[c]
    \/ standby'[c] # standby[c]
    \/ unlockParts'[c] # unlockParts[c]
    \/ \E l \in Loops :
          loops[l].core = c /\ loops'[l].preSeals > loops[l].preSeals

C23_WritesUnderStateLock ==
    [][\A c \in Cores :
          GuardedWrite(c) => Readers(c) = {} /\ LockedStep(c)]_vars

(* C24: whenever no Initialize, Unseal or Seal call is executing on a Core,
   its sealed flag agrees with its barrier: not sealed, the barrier is
   unsealed; sealed, the barrier is sealed. *)
\* A client thread is inside Initialize, Unseal or Seal on the Core c.
InSealCall(c) ==
    \E t \in Threads :
        /\ th[t].core = c
        /\ th[t].op \in {"Initialize", "Unseal", "Seal"}

C24_SealedAgreesWithBarrier ==
    \A c \in Cores : ~InSealCall(c) => sealed[c] = barrierSealed[c]

(* C25: checkToken looks a token up only while the token store and the
   policy store are set up, whether HandleRequest or Seal calls it; in
   particular Seal on an unsealed HA node in standby does not. *)
\* The step of thread t calls checkToken with a client token: Seal on an
\* unsealed Core, or the authenticated path of HandleRequest.
ChecksToken(t) ==
    /\ th[t].token # 0
    /\ th'[t].pc # th[t].pc
    /\ \/ th[t].pc = "seal_lock" /\ ~sealed[th[t].core]
       \/ th[t].pc = "hr_inflight" /\ ~LoginPath(th[t].path)

C25_TokenCheckHasStores ==
    [][\A t \in Threads :
          ChecksToken(t)
          => /\ {"tokenStore", "policy"} \subseteq mgr[th[t].core]
             /\ th'[t].err # "panic"]_vars

(* C26: an Initialize that returns an error leaves the Core uninitialized,
   so that a later Initialize can succeed; the Core is initialized only
   once an InitResult has been returned to a caller. *)
C26_InitializeAllOrNothing ==
    [][\A t \in Threads :
          /\ th[t].pc = "init_lock" /\ th'[t].pc = "idle"
          /\ ~Initialized
          => /\ th'[t].ret = "nil" => ~Initialized'
             /\ Initialized' => nInitResults' > 0]_vars

(* C27: whenever a Core is sealed and no Initialize, Unseal or Seal call and
   no standby loop of it is executing, every component postUnseal brings up
   has been torn down: no handle is set up. *)
\* A standby loop of the Core c is running.
LoopRunning(c) ==
    \E l \in Loops :
        loops[l].core = c /\ loops[l].pc \notin {"unused", "exited"}

C27_SealedTornDown ==
    \A c \in Cores :
        sealed[c] /\ ~InSealCall(c) /\ ~LoopRunning(c) => mgr[c] = {}

====
